---- MODULE Spec2Model ----
(***************************************************************************)
(* Model of src/bot.py: a Discord bot that polls the newest message of one *)
(* channel (check_channel), relays its first image attachment over SFTP    *)
(* (try_upload_once) and retries failed uploads in deferred tasks          *)
(* (retry_upload_after_delay).  All tasks share one state file             *)
(* (load_state / save_state).                                              *)
(*                                                                         *)
(* The bot runs on one asyncio event loop: the code between two awaits is  *)
(* one atomic step, and tasks interleave only at awaits.  Each action      *)
(* below is one such await-free segment of a handler.  A retry task reads  *)
(* nothing shared between its sleep and the end of its upload, so its two  *)
(* awaits are one step (RetryResolve); the tick likewise awaits att.read() *)
(* and the upload as one suspension.  Two saves in a row (lines 108 and    *)
(* 115, 221 and 230) are in one step: the first does not touch the cursor. *)
(*                                                                         *)
(* The environment posts messages with increasing ids, deletes messages,   *)
(* decides every upload's outcome and may restart the process.             *)
(*   Spec       everything, no history recorded                            *)
(*   SpecWatch  everything, the deliveries of one message recorded         *)
(*   SpecTasks  ticks, retry tasks and posts only, one message recorded    *)
(*   FairSpec   no restart, weak fairness of the tick and the retry tasks  *)
(*   SpecFile   ticks, retry tasks and posts, the state file may be damaged *)
(*   SpecAttachments  one message with any attachment list, ticks and      *)
(*              retry tasks                                                *)
(*   SpecRestart  the process just restarted with a retry count on file    *)
(***************************************************************************)
EXTENDS Integers, Sequences, FiniteSets

\* ----------------------------------------------------------------- bounds
\* Message ids the channel source hands out: 1..MaxId.
MaxId == 2
\* A tick starts only while fewer than MaxTasks retry tasks are outstanding.
MaxTasks == 2
\* A message carries at most MaxAtts attachments where every attachment list
\* is tried (SpecAttachments).
MaxAtts == 3

\* ------------------------------------------------------ program constants
\* The literal 3 of `if current_count < 3` (retry task and tick).
MaxAttempts == 3

Ids == 1..MaxId

\* The history counters saturate one above the limit: enough to tell a
\* fourth attempt from a third.
MaxCount == MaxAttempts + 1

\* ------------------------------------------------------------ conversions
\* str(n) for a non-negative int, as the sequence of its decimal digits.
Digits == <<"0", "1", "2", "3", "4", "5", "6", "7", "8", "9">>

RECURSIVE Str(_)
Str(n) == IF n < 10 THEN <<Digits[n + 1]>>
          ELSE Append(Str(n \div 10), Digits[(n % 10) + 1])

DigitValue(c) == (CHOOSE i \in 1..10 : Digits[i] = c) - 1

\* int(s) for a decimal digit string.
RECURSIVE ParseInt(_)
ParseInt(s) == IF Len(s) = 0 THEN 0
               ELSE 10 * ParseInt(SubSeq(s, 1, Len(s) - 1)) + DigitValue(s[Len(s)])

\* ------------------------------------------------------------------ dicts
\* A Python dict is a function; the empty dict is the empty function.
EmptyDict == <<>>

\* d.get(k, default)
Get(d, k, default) == IF k \in DOMAIN d THEN d[k] ELSE default

\* d[k] = v
SetKey(d, k, v) == [x \in (DOMAIN d) \cup {k} |-> IF x = k THEN v ELSE d[x]]

\* d.pop(k, None)
Pop(d, k) == IF (DOMAIN d) \ {k} = {} THEN EmptyDict
             ELSE [x \in (DOMAIN d) \ {k} |-> d[x]]

\* --------------------------------------------------------- retry counters
get_retry_count(state, msg_id) ==
    LET retry_counts == Get(state, "retry_counts", EmptyDict)
    IN  Get(retry_counts, Str(msg_id), 0)

\* A set_retry_count that stores whatever count it is given.
set_retry_count_StoresZero(state, msg_id, count) ==
    LET retry_counts == Get(state, "retry_counts", EmptyDict)
    IN  SetKey(state, "retry_counts", SetKey(retry_counts, Str(msg_id), count))

set_retry_count(state, msg_id, count) ==
    LET retry_counts == Get(state, "retry_counts", EmptyDict)
        updated == IF count <= 0 THEN Pop(retry_counts, Str(msg_id))
                   ELSE SetKey(retry_counts, Str(msg_id), count)
    IN  SetKey(state, "retry_counts", updated)

\* int(state.get("last_message_id", "0"))
LastMessageId(state) == ParseInt(Get(state, "last_message_id", Str(0)))

\* ---------------------------------------------------------------- strings
\* A Python str is the sequence of its characters.
UpperLetters == <<"A", "B", "C", "D", "E", "F", "G", "H", "I", "J", "K", "L", "M",
                 "N", "O", "P", "Q", "R", "S", "T", "U", "V", "W", "X", "Y", "Z">>
LowerLetters == <<"a", "b", "c", "d", "e", "f", "g", "h", "i", "j", "k", "l", "m",
                 "n", "o", "p", "q", "r", "s", "t", "u", "v", "w", "x", "y", "z">>

UpperSet == {UpperLetters[i] : i \in 1..26}

\* The lower-case letter of every upper-case letter.
LowerOf ==
    [c \in UpperSet |-> LowerLetters[CHOOSE i \in 1..26 : UpperLetters[i] = c]]

LowerChar(c) == IF c \in UpperSet THEN LowerOf[c] ELSE c

\* s.lower()
Lower(s) == [i \in 1..Len(s) |-> LowerChar(s[i])]

\* s.startswith(prefix)
StartsWith(s, prefix) ==
    /\ Len(s) >= Len(prefix)
    /\ SubSeq(s, 1, Len(prefix)) = prefix

\* p.rfind(c), counted from 1: 0 when c does not occur.
RFind(p, c) ==
    LET at == {i \in 1..Len(p) : p[i] = c}
    IN  IF at = {} THEN 0 ELSE CHOOSE i \in at : \A j \in at : j <= i

\* os.path.splitext(p): the extension starts at the last dot of the last
\* path component, unless only dots come before it in that component.
splitext(p) ==
    LET sepIndex == RFind(p, "/")
        dotIndex == RFind(p, ".")
    IN  IF /\ dotIndex > sepIndex
           /\ \E i \in (sepIndex + 1)..(dotIndex - 1) : p[i] # "."
        THEN [root |-> SubSeq(p, 1, dotIndex - 1),
              ext |-> SubSeq(p, dotIndex, Len(p))]
        ELSE [root |-> p, ext |-> <<>>]

\* ------------------------------------------------------------ attachments
\* An attachment: its declared content type (the empty string when Discord
\* gives none: `att.content_type or ""`) and its filename.
ImageExts ==
    {<<".", "p", "n", "g">>,
     <<".", "j", "p", "g">>,
     <<".", "j", "p", "e", "g">>,
     <<".", "g", "i", "f">>,
     <<".", "w", "e", "b", "p">>,
     <<".", "b", "m", "p">>,
     <<".", "t", "i", "f", "f">>}

ImagePrefix == <<"i", "m", "a", "g", "e", "/">>

\* (The one-element sets bind each intermediate result as a value, so that
\* it is computed once.)
is_image_attachment(att) ==
    \E ct \in {att.content_type}, filename \in {att.filename} :
        \E suffix \in {splitext(filename).ext} :
            \E ext \in {Lower(suffix)} :
                StartsWith(ct, ImagePrefix) \/ ext \in ImageExts

\* notes.txt, declared text/plain
TxtAtt == [content_type |-> <<"t", "e", "x", "t", "/", "p", "l", "a", "i", "n">>,
           filename |-> <<"n", "o", "t", "e", "s", ".", "t", "x", "t">>]
\* photo.PNG, nothing declared
PngAtt == [content_type |-> <<>>,
           filename |-> <<"p", "h", "o", "t", "o", ".", "P", "N", "G">>]
\* blob, declared image/jpeg
JpegAtt == [content_type |-> <<"i", "m", "a", "g", "e", "/", "j", "p", "e", "g">>,
            filename |-> <<"b", "l", "o", "b">>]
\* .png, nothing declared: a filename without extension
DotAtt == [content_type |-> <<>>,
           filename |-> <<".", "p", "n", "g">>]

\* The attachment lists a posted message may carry.
AttLists == {<<>>, <<TxtAtt>>, <<TxtAtt, PngAtt>>}

\* Every attachment list of at most MaxAtts attachments.
Attachments == {TxtAtt, PngAtt, JpegAtt, DotAtt}

WideAttLists == UNION {[1..n -> Attachments] : n \in 0..MaxAtts}

\* A loop without its `break`: the last image attachment wins.
RECURSIVE SelectFrom_LastMatch(_, _)
SelectFrom_LastMatch(atts, i) ==
    IF i > Len(atts) THEN 0
    ELSE LET later == SelectFrom_LastMatch(atts, i + 1)
         IN  IF later # 0 THEN later
             ELSE IF is_image_attachment(atts[i]) THEN i ELSE 0

\* `for a in msg.attachments: if is_image_attachment(a): att = a; break`,
\* from index i on: the index of the attachment chosen, 0 if none.
RECURSIVE SelectFrom(_, _)
SelectFrom(atts, i) ==
    IF i > Len(atts) THEN 0
    ELSE IF is_image_attachment(atts[i]) THEN i
    ELSE SelectFrom(atts, i + 1)

SelectAttachment(atts) == SelectFrom(atts, 1)

\* ------------------------------------------------------------ target name
\* A format string is the sequence of its parts: literal text, or a
\* replacement field {name}.
Lit(text) == [field |-> "", lit |-> text]
Field(name) == [field |-> name, lit |-> <<>>]

\* pattern.format(**values)
RECURSIVE Format(_, _)
Format(pattern, values) ==
    IF Len(pattern) = 0 THEN <<>>
    ELSE (IF Head(pattern).field = "" THEN Head(pattern).lit
          ELSE values[Head(pattern).field])
         \o Format(Tail(pattern), values)

\* The default of RENAME_PATTERN: "{timestamp}_{message_id}_{filename}"
RENAME_PATTERN ==
    <<Field("timestamp"), Lit(<<"_">>), Field("message_id"), Lit(<<"_">>),
      Field("filename")>>

\* Other values of RENAME_PATTERN: "{message_id}", "{base}{ext}",
\* "{channel_id}.d/{base}", ".{author_id}_{base}", "{base}.{timestamp}"
Patterns ==
    {RENAME_PATTERN,
     <<Field("message_id")>>,
     <<Field("base"), Field("ext")>>,
     <<Field("channel_id"), Lit(<<".", "d", "/">>), Field("base")>>,
     <<Lit(<<".">>), Field("author_id"), Lit(<<"_">>), Field("base")>>,
     <<Field("base"), Lit(<<".">>), Field("timestamp")>>}

\* A name that gets the extension appended whatever it looks like.
TargetName_AlwaysAppends(pattern, ts, message_id, filename, author_id, channel_id) ==
    LET ext == splitext(filename).ext
        new_name == Format(pattern,
                           [timestamp |-> ts,
                            message_id |-> Str(message_id),
                            filename |-> filename,
                            base |-> splitext(filename).root,
                            ext |-> ext,
                            author_id |-> Str(author_id),
                            channel_id |-> Str(channel_id)])
    IN  new_name \o ext

\* check_channel, from `base, ext = os.path.splitext(att.filename)` to the
\* name handed to try_upload_once; ts is the clock's
\* strftime("%Y%m%dT%H%M%SZ").
TargetName(pattern, ts, message_id, filename, author_id, channel_id) ==
    LET base == splitext(filename).root
        ext == splitext(filename).ext
        new_name == Format(pattern,
                           [timestamp |-> ts,
                            message_id |-> Str(message_id),
                            filename |-> filename,
                            base |-> base,
                            ext |-> ext,
                            author_id |-> Str(author_id),
                            channel_id |-> Str(channel_id)])
    IN  IF splitext(new_name).ext = <<>> THEN new_name \o ext ELSE new_name

\* ------------------------------------------------------------------ state
VARIABLES
    disk,      \* the state file: [exists, valid, content]
    channel,   \* the channel: sequence of posted messages [live, attachments]
    pc,        \* where the tick (check_channel) is suspended
    state,     \* check_channel's local `state`
    msg,       \* check_channel's local `msg` (its id; 0 when none)
    retries,   \* outstanding retry_upload_after_delay tasks per message id
    watch,     \* history: the message id whose delivery is recorded (0: none)
    fails,     \* history: failed upload attempts for watch
    succ,      \* history: successful upload attempts for watch
    sched      \* history: retry tasks created for watch

vars == <<disk, channel, pc, state, msg, retries, watch, fails, succ, sched>>

\* ------------------------------------------------------------- state file
\* The file holds the text of the dict last written (content); valid tells
\* whether read_text and json.loads give that dict back.
\* A load_state without its try/except, reading whatever is left in the file.
load_state_NoCatch == IF disk.exists THEN disk.content ELSE EmptyDict

\* `if STATE_PATH.exists(): try: return json.loads(...) except Exception:
\* return {}` and the final `return {}`.
load_state == IF disk.exists /\ disk.valid THEN disk.content ELSE EmptyDict

save_state(s) == [exists |-> TRUE, valid |-> TRUE, content |-> s]

\* The cursor as any task would read it now.
Cursor == LastMessageId(load_state)

\* The retry counter persisted for m (0: no entry).
Counter(m) == get_retry_count(load_state, m)

\* ---------------------------------------------------------------- channel
\* channel.history(limit=1): the id of the newest live message, 0 if none.
Newest ==
    LET live == {i \in 1..Len(channel) : channel[i].live}
    IN  IF live = {} THEN 0 ELSE CHOOSE i \in live : \A j \in live : j <= i

Bump(n) == IF n < MaxCount THEN n + 1 ELSE n

RECURSIVE SumTo(_, _)
SumTo(f, n) == IF n = 0 THEN 0 ELSE f[n] + SumTo(f, n - 1)

TotalRetries == SumTo(retries, MaxId)

\* The process has just started: no state file, an empty channel, no task.
Start ==
    /\ disk = [exists |-> FALSE, valid |-> FALSE, content |-> EmptyDict]
    /\ channel = <<>>
    /\ pc = "idle"
    /\ state = EmptyDict
    /\ msg = 0
    /\ retries = [m \in Ids |-> 0]
    /\ fails = 0
    /\ succ = 0
    /\ sched = 0

\* No history is recorded.
Init == Start /\ watch = 0

\* The deliveries of one message, any one, are recorded.
InitWatch == Start /\ watch \in Ids

\* The process has just started on a channel whose only message carries
\* any one of the attachment lists.
InitAttachments ==
    /\ disk = [exists |-> FALSE, valid |-> FALSE, content |-> EmptyDict]
    /\ channel \in {<<[live |-> TRUE, attachments |-> atts]>> :
                        atts \in WideAttLists}
    /\ pc = "idle"
    /\ state = EmptyDict
    /\ msg = 0
    /\ retries = [m \in Ids |-> 0]
    /\ watch = 0
    /\ fails = 0
    /\ succ = 0
    /\ sched = 0

\* The process has just been started again.  Before, k attempts for the
\* newest message (watch) failed: its count k is on file, the cursor is
\* below it, its retry task went with the old process.
InitRestart ==
    /\ watch \in Ids
    /\ \E k \in 1..(MaxAttempts - 1), last \in 0..(watch - 1) :
          /\ disk = save_state(
                       set_retry_count(
                           IF last = 0 THEN EmptyDict
                           ELSE SetKey(EmptyDict, "last_message_id", Str(last)),
                           watch, k))
          /\ fails = k
          /\ sched = k
    /\ channel \in [1..watch -> {[live |-> TRUE, attachments |-> atts] :
                                    atts \in AttLists}]
    /\ SelectAttachment(channel[watch].attachments) > 0
    /\ pc = "idle"
    /\ state = EmptyDict
    /\ msg = 0
    /\ retries = [m \in Ids |-> 0]
    /\ succ = 0

\* ------------------------------------------------- what the handlers write
\* A tick that forgets to move the cursor when it skips a message.
TickSkipState_NoAdvance(st, id) == st

\* check_channel, no attachment / no image attachment: state["last_message_id"] = str(msg.id)
TickSkipState(st, id) == SetKey(st, "last_message_id", Str(id))

\* check_channel, upload succeeded: the state loaded at the start of the tick,
\* with the cursor set and the counter cleared.
TickSuccessState(st, id) ==
    set_retry_count(SetKey(st, "last_message_id", Str(id)), id, 0)

\* A tick that moves the cursor as soon as the first attempt fails.
TickFailState_AdvancesCursor(st, id) ==
    set_retry_count(SetKey(st, "last_message_id", Str(id)), id,
                    get_retry_count(st, id) + 1)

\* check_channel, upload failed: the counter of a freshly loaded state, plus one.
TickFailState(st, id) == set_retry_count(st, id, get_retry_count(st, id) + 1)

\* check_channel, counter reached the limit.
TickGiveUpState(st, id) ==
    set_retry_count(SetKey(st, "last_message_id", Str(id)), id, 0)

\* A retry task that writes a retry_counts of its own, with its entry only.
RetryFailState_DropsOthers(st, id) ==
    SetKey(st, "retry_counts",
           SetKey(EmptyDict, Str(id), get_retry_count(st, id) + 1))

\* retry_upload_after_delay, upload failed.
RetryFailState(st, id) == set_retry_count(st, id, get_retry_count(st, id) + 1)

\* A retry task that gives up without moving the cursor.
RetryGiveUpState_KeepsCursor(st, id) == set_retry_count(st, id, 0)

\* retry_upload_after_delay, counter reached the limit.
RetryGiveUpState(st, id) ==
    set_retry_count(SetKey(st, "last_message_id", Str(id)), id, 0)

\* A retry task that leaves the counter entry behind when it succeeds.
RetrySuccessState_KeepsCounter(st, id) ==
    LET current_last == LastMessageId(st)
    IN  IF id > current_last
        THEN SetKey(st, "last_message_id", Str(id)) ELSE st

\* retry_upload_after_delay, upload succeeded: the cursor moves only forward.
RetrySuccessState(st, id) ==
    LET current_last == LastMessageId(st)
        moved == IF id > current_last
                 THEN SetKey(st, "last_message_id", Str(id)) ELSE st
    IN  set_retry_count(moved, id, 0)

\* `if current_count < 3`: another retry is scheduled.
TickRetries(current_count) == current_count < MaxAttempts

RetryRetries(current_count) == current_count < MaxAttempts

\* ------------------------------------------------------------ environment
\* A user posts a message: ids are handed out in increasing order.
Post(atts) ==
    /\ Len(channel) < MaxId
    /\ channel' = Append(channel, [live |-> TRUE, attachments |-> atts])
    /\ UNCHANGED <<disk, pc, state, msg, retries, watch, fails, succ, sched>>

\* A user or moderator deletes a message.
Delete(m) ==
    /\ m \in 1..Len(channel)
    /\ channel[m].live
    /\ channel' = [channel EXCEPT ![m] = [live |-> FALSE, attachments |-> <<>>]]
    /\ UNCHANGED <<disk, pc, state, msg, retries, watch, fails, succ, sched>>

\* The state file is damaged (a write cut short, a bad disk, an editor):
\* it is still there, it does not parse any more.
Damage ==
    /\ disk.exists
    /\ disk.valid
    /\ disk' = [disk EXCEPT !.valid = FALSE]
    /\ UNCHANGED <<channel, pc, state, msg, retries, watch, fails, succ, sched>>

\* The process is stopped and started again: the tasks in flight are gone,
\* the state file stays.
Restart ==
    /\ pc' = "idle"
    /\ state' = EmptyDict
    /\ msg' = 0
    /\ retries' = [m \in Ids |-> 0]
    /\ UNCHANGED <<disk, channel, watch, fails, succ, sched>>

\* ------------------------------------------------------- check_channel
\* state = load_state(); last_id = ...; await client.fetch_channel(...)
TickStart ==
    /\ pc = "idle"
    /\ TotalRetries < MaxTasks
    /\ state' = load_state
    /\ pc' = "fetch_channel"
    /\ UNCHANGED <<disk, channel, msg, retries, watch, fails, succ, sched>>

TickReturn ==
    /\ pc' = "idle"
    /\ state' = EmptyDict
    /\ msg' = 0

\* fetch_channel resolves; `if channel is None: return`; await channel.history(...)
TickFetchChannel(found) ==
    /\ pc = "fetch_channel"
    /\ IF found
       THEN /\ pc' = "history"
            /\ UNCHANGED <<state, msg>>
       ELSE /\ TickReturn
    /\ UNCHANGED <<disk, channel, retries, watch, fails, succ, sched>>

\* A tick that takes the message the cursor stands on for a new one.
NothingNew_Strict(id, last_id) == id < last_id

\* `if msg.id <= last_id: return`
NothingNew(id, last_id) == id <= last_id

\* history resolves; the early returns, the skips, the attachment choice;
\* await att.read() and then await try_upload_once(...): the tick touches
\* nothing shared between the two, they are one suspension here.
TickHistory ==
    /\ pc = "history"
    /\ LET m == Newest
           last_id == LastMessageId(state)
       IN  IF m = 0 \/ NothingNew(m, last_id)
           THEN /\ TickReturn
                /\ UNCHANGED disk
           ELSE IF Len(channel[m].attachments) = 0
                   \/ SelectAttachment(channel[m].attachments) = 0
           THEN /\ disk' = save_state(TickSkipState(state, m))
                /\ TickReturn
           ELSE /\ pc' = "upload"
                /\ msg' = m
                /\ UNCHANGED <<disk, state>>
    /\ UNCHANGED <<channel, retries, watch, fails, succ, sched>>

\* try_upload_once resolves with `ok`; the rest of check_channel
TickUpload(ok) ==
    /\ pc = "upload"
    /\ IF ok
       THEN /\ disk' = save_state(TickSuccessState(state, msg))
            /\ succ' = IF msg = watch THEN Bump(succ) ELSE succ
            /\ UNCHANGED <<retries, fails, sched>>
       ELSE LET st == TickFailState(load_state, msg)
                current_count == get_retry_count(st, msg)
            IN  /\ fails' = IF msg = watch THEN Bump(fails) ELSE fails
                /\ UNCHANGED succ
                /\ IF TickRetries(current_count)
                   THEN /\ disk' = save_state(st)
                        /\ retries' = [retries EXCEPT ![msg] = @ + 1]
                        /\ sched' = IF msg = watch THEN Bump(sched) ELSE sched
                   ELSE /\ disk' = save_state(TickGiveUpState(st, msg))
                        /\ UNCHANGED <<retries, sched>>
    /\ TickReturn
    /\ UNCHANGED <<channel, watch>>

\* ------------------------------------------- retry_upload_after_delay
\* The sleep ends and try_upload_once resolves with `ok`; the rest of the task.
RetryResolve(m, ok) ==
    /\ retries[m] > 0
    /\ IF ok
       THEN /\ disk' = save_state(RetrySuccessState(load_state, m))
            /\ retries' = [retries EXCEPT ![m] = @ - 1]
            /\ succ' = IF m = watch THEN Bump(succ) ELSE succ
            /\ UNCHANGED <<fails, sched>>
       ELSE LET st == RetryFailState(load_state, m)
                current_count == get_retry_count(st, m)
            IN  /\ fails' = IF m = watch THEN Bump(fails) ELSE fails
                /\ UNCHANGED succ
                /\ IF RetryRetries(current_count)
                   THEN /\ disk' = save_state(st)
                        /\ UNCHANGED retries
                        /\ sched' = IF m = watch THEN Bump(sched) ELSE sched
                   ELSE /\ disk' = save_state(RetryGiveUpState(st, m))
                        /\ retries' = [retries EXCEPT ![m] = @ - 1]
                        /\ UNCHANGED sched
    /\ UNCHANGED <<channel, pc, state, msg, watch>>

\* ---------------------------------------------------------- specifications
Tick ==
    \/ TickStart
    \/ \E found \in BOOLEAN : TickFetchChannel(found)
    \/ TickHistory
    \/ \E ok \in BOOLEAN : TickUpload(ok)

Retry == \E m \in Ids, ok \in BOOLEAN : RetryResolve(m, ok)

\* Ticks, retry tasks and new messages.
NextTasks ==
    \/ Tick
    \/ Retry
    \/ \E atts \in AttLists : Post(atts)

\* The same, and messages may be deleted.
NextLive ==
    \/ NextTasks
    \/ \E m \in Ids : Delete(m)

\* The same, and the process may restart.
Next ==
    \/ NextLive
    \/ Restart

Spec == Init /\ [][Next]_vars

SpecWatch == InitWatch /\ [][Next]_vars

SpecTasks == InitWatch /\ [][NextTasks]_vars

\* Ticks, retry tasks and new messages, and the state file may be damaged.
NextFile ==
    \/ NextTasks
    \/ Damage

SpecFile == Init /\ [][NextFile]_vars

\* Ticks and retry tasks on a channel that stays as it is.
NextPoll ==
    \/ Tick
    \/ Retry

SpecAttachments == InitAttachments /\ [][NextPoll]_vars

\* The process after a restart, on a channel that stays as it is.
SpecRestart == InitRestart /\ [][NextPoll]_vars

\* No restart, and the event loop runs every task that is ready: the tick's
\* continuations and every retry task.
FairSpec == Init /\ [][NextLive]_vars /\ WF_vars(Tick) /\ WF_vars(Retry)

\* ------------------------------------------------------------------ claims
MaxOf(a, b) == IF a >= b THEN a ELSE b

\* The tick has handed m to delivery and has not returned yet.
TickDelivering(m) == pc = "upload" /\ msg = m

\* m is on the channel with an image attachment.
HasImage(m) ==
    /\ m \in 1..Len(channel)
    /\ SelectAttachment(channel[m].attachments) > 0

\* This step resolves an upload attempt for m (try_upload_once returned ok),
\* in the tick or in a retry task.
Resolves(m, ok) ==
    \/ TickUpload(ok) /\ msg = m
    \/ RetryResolve(m, ok)

\* The failed attempt for m left a new retry task behind / left none.
RescheduleStep(m) ==
    \/ TickUpload(FALSE) /\ msg = m /\ retries'[m] = retries[m] + 1
    \/ RetryResolve(m, FALSE) /\ retries'[m] = retries[m]

GiveUpStep(m) ==
    \/ TickUpload(FALSE) /\ msg = m /\ retries'[m] = retries[m]
    \/ RetryResolve(m, FALSE) /\ retries'[m] = retries[m] - 1

\* This step is a tick skipping m for want of an image attachment.
SkipStep(m) ==
    /\ TickHistory
    /\ Newest = m
    /\ SelectAttachment(channel[m].attachments) = 0

\* C1: the persisted last_message_id never decreases: every step that saves
\* the state file leaves a cursor at least as large as the one before it.
C1_CursorNeverDecreases == [][Cursor' >= Cursor]_vars

\* C2: no message is relayed twice: at most one upload attempt for a
\* message id ever succeeds.
C2_NoDoubleRelay == succ <= 1

\* C3: a message whose upload attempts all fail gets exactly three of them:
\* the step of the third failure leaves the cursor at its id and no counter
\* entry for it and schedules no retry, and there is never a fourth attempt.
C3_ThreeFailuresThenStop ==
    [][/\ (succ' = 0) => (fails' <= MaxAttempts)
       /\ (Resolves(watch, FALSE) /\ succ = 0 /\ fails' = MaxAttempts) =>
              (/\ Cursor' = watch
               /\ Counter(watch)' = 0
               /\ GiveUpStep(watch))]_vars

\* The step in which the first successful attempt for watch resolves, after
\* fewer than three failures.
FirstSuccessStep == Resolves(watch, TRUE) /\ succ = 0 /\ fails < MaxAttempts

\* C4 as stated: when the upload of a message succeeds after k < 3 failures,
\* the persisted cursor is that message's id, its counter entry is gone and
\* exactly k retry tasks were scheduled for it.
C4_SuccessSetsCursorToId ==
    [][FirstSuccessStep =>
          (Cursor' = watch /\ Counter(watch)' = 0 /\ sched' = fails')]_vars

\* C4 as amended: when the upload of a message succeeds after k < 3
\* failures, the persisted cursor is at least that message's id (it is the
\* id unless the cursor was already further), its counter entry is gone and
\* exactly k retry tasks were scheduled for it.
C4_SuccessCursorAtLeastId ==
    [][FirstSuccessStep =>
          (/\ Cursor' >= watch
           /\ Counter(watch)' = 0
           /\ sched' = fails')]_vars

\* Two failures, two retries scheduled, then the success: the cursor had
\* moved past the message meanwhile and stays there.
C4_Witness ==
    /\ succ = 1
    /\ fails = 2
    /\ sched = 2
    /\ Counter(watch) = 0
    /\ retries[watch] = 0
    /\ Cursor > watch

C6_OneRetryPerMessage == \A m \in Ids : retries[m] <= 1

\* C7: retry_counts has an entry for a message id only while a retry task
\* for that id is pending.
C7_CounterOnlyWhilePending == \A m \in Ids : Counter(m) > 0 => retries[m] > 0

\* C8: a tick that finds a newest message above the cursor it loaded, with
\* no attachment or no image attachment, persists that message's id as the
\* cursor in the same step, returns, makes no upload attempt and schedules
\* no retry.
C8_NonImageAdvancesCursor ==
    [][(/\ TickHistory
        /\ Newest > LastMessageId(state)
        /\ SelectAttachment(channel[Newest].attachments) = 0)
       => (/\ Cursor' = Newest
           /\ disk'.exists
           /\ pc' = "idle"
           /\ UNCHANGED <<retries, fails, succ, sched>>)]_vars

\* The cursor stands on a message that carries attachments, none an image.
C8_Witness ==
    /\ Cursor \in 1..Len(channel)
    /\ Len(channel[Cursor].attachments) > 0
    /\ SelectAttachment(channel[Cursor].attachments) = 0
    /\ pc = "idle"

\* C9: the cursor is never advanced to a message before its delivery is
\* resolved: a failed attempt whose incremented counter is below 3 persists
\* the incremented counter and leaves the cursor as it was, and the cursor
\* becomes a message's id only in a step that resolves that message: a
\* successful attempt for it, the failure that brings its counter to 3, or
\* (for a message without image) the skip.
C9_CursorMovesOnlyOnResolution ==
    [][\A m \in Ids :
          /\ RescheduleStep(m) =>
                 (/\ Cursor' = Cursor
                  /\ Counter(m)' = Counter(m) + 1
                  /\ Counter(m)' < MaxAttempts)
          /\ (Cursor' # Cursor /\ Cursor' = m) =>
                 \/ Resolves(m, TRUE)
                 \/ GiveUpStep(m) /\ Counter(m) + 1 = MaxAttempts
                 \/ SkipStep(m)]_vars

\* A second failure is on file, a retry is pending, the cursor is behind.
C9_Witness ==
    \E m \in Ids :
        /\ Counter(m) = 2
        /\ retries[m] > 0
        /\ Cursor < m

\* C10: a successful upload for a message sets the cursor to its id only if
\* the id is greater than the cursor persisted at that moment; otherwise the
\* cursor stays as it is.
C10_SuccessNeverLowersCursor ==
    [][\A m \in Ids : Resolves(m, TRUE) => Cursor' = MaxOf(Cursor, m)]_vars

\* This step is a tick returning early: the channel was not found, the
\* channel holds no message, or its newest message is not above the cursor
\* the tick loaded when it started.
AbortStep ==
    \/ TickFetchChannel(FALSE)
    \/ TickHistory /\ Newest = 0
    \/ TickHistory /\ Newest > 0 /\ Newest <= LastMessageId(state)

\* C11: a tick that aborts early (channel not resolved, no message, newest
\* id not above the last_message_id loaded at the start of the tick) leaves
\* the state file as it is, returns, makes no upload attempt and schedules
\* no retry.
C11_AbortChangesNothing ==
    [][AbortStep =>
          (/\ disk' = disk
           /\ pc' = "idle"
           /\ msg' = 0
           /\ UNCHANGED <<retries, fails, succ, sched>>)]_vars

\* A tick is suspended on the history call while the newest message is the
\* one the cursor it loaded stands on and another task has written the
\* state file since: its next step is the abort.
C11_Witness ==
    /\ pc = "history"
    /\ Newest > 0
    /\ Newest <= LastMessageId(state)
    /\ disk.content # state

\* C12: set_retry_count with count 0 removes the entry of that id, it does
\* not store 0; get_retry_count is 0 for an id without entry; and so the
\* state file never holds a retry_counts entry that is 0 or negative.
C12_NoZeroCounterEntry ==
    LET retry_counts == Get(load_state, "retry_counts", EmptyDict)
    IN  /\ \A k \in DOMAIN retry_counts : retry_counts[k] > 0
        /\ \A m \in Ids :
               LET cleared == set_retry_count(load_state, m, 0)
               IN  /\ Str(m) \notin DOMAIN cleared["retry_counts"]
                   /\ get_retry_count(cleared, m) = 0
                   /\ \A n \in Ids \ {m} :
                          get_retry_count(cleared, n) = Counter(n)
        /\ \A m \in Ids :
               Str(m) \notin DOMAIN retry_counts => Counter(m) = 0

\* The recorded message failed three times: its entry was stored twice and
\* then removed, while another message's entry is on file.
C12_Witness ==
    /\ fails = MaxAttempts
    /\ succ = 0
    /\ Counter(watch) = 0
    /\ "retry_counts" \in DOMAIN load_state
    /\ \E n \in Ids : Counter(n) > 0

Qualifies(att) ==
    \/ StartsWith(att.content_type, ImagePrefix)
    \/ Lower(splitext(att.filename).ext) \in ImageExts

\* C14: attachment selection is first-match: for the message a tick looks
\* at, the attachment chosen is the one of lowest index that qualifies, none
\* is chosen exactly when none qualifies, and the tick hands the message to
\* delivery exactly when one is chosen.
C14_FirstMatchSelection ==
    [][(TickHistory /\ Newest > LastMessageId(state)) =>
          LET atts == channel[Newest].attachments
              qualifying == {i \in 1..Len(atts) : Qualifies(atts[i])}
              chosen == SelectAttachment(atts)
          IN  /\ (chosen = 0) <=> (qualifying = {})
              /\ chosen # 0 =>
                     (chosen \in qualifying /\ \A j \in qualifying : chosen <= j)
              /\ (pc' = "upload") <=> (chosen # 0)]_vars

\* A message is in delivery whose second attachment was chosen, an image by
\* its declared kind only, with one that does not qualify before it and
\* another image after it.
C14_Witness ==
    /\ pc = "upload"
    /\ LET atts == channel[msg].attachments
       IN  /\ Len(atts) = 3
           /\ SelectAttachment(atts) = 2
           /\ atts[1] = DotAtt
           /\ atts[2] = JpegAtt
           /\ atts[3] = PngAtt

\* The clock reading of the example, 20240101T000000Z.
ExampleTimestamp ==
    <<"2", "0", "2", "4", "0", "1", "0", "1", "T", "0", "0", "0", "0", "0", "0", "Z">>

\* The name of the example, 20240101T000000Z_42_photo.PNG.
ExampleName ==
    <<"2", "0", "2", "4", "0", "1", "0", "1", "T", "0", "0", "0", "0", "0", "0", "Z",
      "_", "4", "2", "_",
      "p", "h", "o", "t", "o", ".", "P", "N", "G">>

\* The name the pattern renders for the attachment, before the extension
\* check.
Rendered(pattern, ts, message_id, filename, author_id, channel_id) ==
    Format(pattern,
           [timestamp |-> ts,
            message_id |-> Str(message_id),
            filename |-> filename,
            base |-> splitext(filename).root,
            ext |-> splitext(filename).ext,
            author_id |-> Str(author_id),
            channel_id |-> Str(channel_id)])

\* C15: the target name is determined by the pattern, the timestamp, the
\* message id, the filename, the author id and the channel id: for the
\* attachment a tick hands to delivery and every pattern, it is the rendered
\* name when that has a file extension, and the rendered name followed by
\* the attachment's own extension when it has none; the default pattern,
\* message 42, photo.PNG and 20240101T000000Z give
\* 20240101T000000Z_42_photo.PNG.
C15_TargetName ==
    /\ TargetName(RENAME_PATTERN, ExampleTimestamp, 42, PngAtt.filename, 1, 1)
           = ExampleName
    /\ pc = "upload" =>
          LET atts == channel[msg].attachments
              filename == atts[SelectAttachment(atts)].filename
          IN  \A pattern \in Patterns, author_id \in Ids, channel_id \in Ids :
                 LET rendered == Rendered(pattern, ExampleTimestamp, msg,
                                          filename, author_id, channel_id)
                     new_name == TargetName(pattern, ExampleTimestamp, msg,
                                            filename, author_id, channel_id)
                 IN  IF splitext(rendered).ext # <<>>
                     THEN new_name = rendered
                     ELSE new_name = rendered \o splitext(filename).ext

\* A message is in delivery with an attachment whose name has an extension,
\* after a non-image attachment was passed over.
C15_Witness ==
    /\ pc = "upload"
    /\ LET atts == channel[msg].attachments
       IN  /\ SelectAttachment(atts) = 2
           /\ atts[2] = PngAtt

\* This step is a tick saving the state file for its message m: the skip, or
\* the end of its upload attempt.
TickSaveStep(m) ==
    \/ SkipStep(m) /\ Newest > LastMessageId(state)
    \/ (\E ok \in BOOLEAN : TickUpload(ok)) /\ msg = m

\* C16: a tick's save loses no update a retry task made while the tick was
\* suspended: apart from the tick's own change for its message, the cursor
\* and the counter entries of the other message ids are, after the save,
\* what was persisted just before it.
C16_TickSaveKeepsOtherUpdates ==
    [][\A m \in Ids :
          TickSaveStep(m) =>
              (/\ Cursor' \in {Cursor, m}
               /\ \A n \in Ids \ {m} : Counter(n)' = Counter(n))]_vars

\* C17: a retry task resolves in one step on the state file, between its
\* load_state and its last save_state no other task runs (the tick stays
\* where it is), and the step changes nothing persisted but the counter
\* entry of its message and last_message_id, which stays or becomes its
\* message's id: the counter entries of all other ids are as before.
C17_RetryTouchesOnlyItsMessage ==
    [][\A m \in Ids :
          (\E ok \in BOOLEAN : RetryResolve(m, ok)) =>
              (/\ \A n \in Ids \ {m} : Counter(n)' = Counter(n)
               /\ Cursor' \in {Cursor, m}
               /\ DOMAIN load_state' \subseteq {"last_message_id", "retry_counts"}
               /\ \A n \in Ids \ {m} : retries'[n] = retries[n]
               /\ UNCHANGED <<pc, state, msg, channel>>)]_vars

\* Two messages have a retry pending and a counter entry on file, one of
\* them after its retry task failed, the other's entry still as it was.
C17_Witness ==
    \E m \in Ids, n \in Ids :
        /\ m # n
        /\ Counter(m) = 2
        /\ Counter(n) = 1
        /\ retries[m] > 0
        /\ retries[n] > 0
        /\ pc = "idle"

\* C18: the process was started again with a count k (1 <= k < 3) on file
\* for the newest message, the cursor below it and its retry task gone.  A
\* tick that finds the cursor still below the message attempts it again, and
\* the budget carries over: counting the k failures before the restart, the
\* third failure gives the message up (cursor at its id, no counter entry,
\* no retry scheduled) and there is never a fourth failed attempt.
C18_BudgetCarriesOverRestart ==
    [][/\ (TickHistory /\ Newest = watch /\ LastMessageId(state) < watch) =>
              (pc' = "upload" /\ msg' = watch)
       /\ (Resolves(watch, FALSE) /\ succ = 0 /\ fails' = MaxAttempts) =>
              (/\ Cursor' = watch
               /\ Counter(watch)' = 0
               /\ GiveUpStep(watch))
       /\ (succ' = 0) => (fails' <= MaxAttempts)]_vars

====
